---- MODULE Spec2Model ----
(***************************************************************************)
(* Model of package diskcache (rsc.io/cloud/diskcache): the entry group of *)
(* one cached path (.meta, .data, .next, .used) on a POSIX file system,    *)
(* used by goroutines/processes that share the cache directory.            *)
(*                                                                         *)
(* Directory entries name inodes; an open file keeps its inode alive after *)
(* unlink; flock(2) locks belong to the inode that was opened.  An action  *)
(* is one system call that other processes can observe, with the local     *)
(* computation around it; the reads Open makes under the lock (lines       *)
(* 281-307) form one action, ioutil.WriteFile another.                     *)
(***************************************************************************)
EXTENDS Integers, Sequences, FiniteSets, TLC

\* ---- bounds of the model ------------------------------------------------
NumProcs      == 2      \* goroutines/processes sharing the directory
MaxLoads      == 3      \* loader calls of the single caller of SpecSeq
MaxConcLoads  == 2      \* loader calls in one behaviour of Spec
MaxTicks      == 2      \* clock ticks after the start time
MaxExpiration == 2      \* largest duration given to SetExpiration
PayloadLen    == 2      \* writes the loader needs for one complete payload
MaxDataLimit  == 1      \* largest limit given to SetMaxData

Procs     == 1..NumProcs
MIno      == 1..(NumProcs + 1)        \* inode numbers for .meta files
DIno      == 1..(NumProcs + 2)        \* inode numbers for .data/.next files
Epoch     == 0                        \* time.Unix(0, 0)
StartTime == MaxExpiration + 1        \* the clock reads far later than any duration
MaxTime   == StartTime + MaxTicks
None      == 0                        \* no inode / nil token / no process

VARIABLES
    now,               \* time.Now()
    atomicExpiration,  \* Cache.atomicExpiration
    atomicMaxData,     \* Cache.atomicMaxData
    dirMeta,           \* inode named prefix+".meta", or None
    dirData,           \* inode named prefix+".data", or None
    dirNext,           \* inode named prefix+".next", or None
    dirUsed,           \* TRUE iff prefix+".used" exists
    minode,            \* .meta inodes: modification time, content, flock holder
    dinode,            \* .data/.next inodes: content
    proc,              \* per goroutine: position in Open/Delete and its locals
    loads,             \* number of Loader.Load calls made so far
    lastLoaded,        \* payload of the last Load that returned (false, _, nil)
    lastToken,         \* newMeta of the last Load that returned without error
    served,            \* highest loader call whose payload a caller has read
    prev               \* what the last Open-read-close returned, if nothing
                       \* but SetExpiration and the clock acted since

vars == <<now, atomicExpiration, atomicMaxData, dirMeta, dirData, dirNext, dirUsed,
          minode, dinode, proc, loads, lastLoaded, lastToken, served, prev>>

\* ---- metaDisk and its JSON encoding ---------------------------------------
ThePath  == "/file"
ZeroMeta == [Path |-> "", CreateTime |-> Epoch, RefreshTime |-> Epoch, Load |-> None]

\* json.Marshal(&meta): one JSON document; an empty file is the empty sequence.
Marshal(m) == <<m>>

\* if len(js) > 0 { json.Unmarshal(js, &meta) }, else the zero metaDisk.
Unmarshal(js) == IF Len(js) > 0 THEN js[1] ELSE ZeroMeta

\* ---- paths -----------------------------------------------------------------
\* A path is the sequence of its characters; Str gives the string.
RECURSIVE Str(_)
Str(s) == IF s = <<>> THEN "" ELSE Head(s) \o Str(Tail(s))

\* path.Clean's step for "..": drop the last element written to out, down to
\* the slash before it (w counts the characters kept).
RECURSIVE Backtrack(_, _, _)
Backtrack(out, w, dotdot) ==
    IF w > dotdot /\ out[w + 1] # "/"
    THEN Backtrack(out, w - 1, dotdot)
    ELSE SubSeq(out, 1, w)

\* First position from r on that holds a slash, or Len(path) + 1.
RECURSIVE ElemEnd(_, _)
ElemEnd(path, r) ==
    IF r > Len(path) \/ path[r] = "/" THEN r ELSE ElemEnd(path, r + 1)

\* The loop of path.Clean: r is the next character to read, out the cleaned
\* prefix, dotdot the length of out that ".." may not remove.
RECURSIVE CleanLoop(_, _, _, _, _)
CleanLoop(path, r, out, dotdot, rooted) ==
    LET n == Len(path) IN
    IF r > n THEN out
    ELSE IF path[r] = "/" THEN CleanLoop(path, r + 1, out, dotdot, rooted)
    ELSE IF path[r] = "." /\ (r = n \/ path[r + 1] = "/")
         THEN CleanLoop(path, r + 1, out, dotdot, rooted)
    ELSE IF path[r] = "." /\ path[r + 1] = "." /\ (r + 1 = n \/ path[r + 2] = "/")
         THEN IF Len(out) > dotdot
              THEN CleanLoop(path, r + 2, Backtrack(out, Len(out) - 1, dotdot),
                             dotdot, rooted)
              ELSE IF ~rooted
              THEN LET o == (IF Len(out) > 0 THEN Append(out, "/") ELSE out)
                               \o <<".", ".">>
                   IN CleanLoop(path, r + 2, o, Len(o), rooted)
              ELSE CleanLoop(path, r + 2, out, dotdot, rooted)
    ELSE LET o == IF (rooted /\ Len(out) # 1) \/ (~rooted /\ Len(out) # 0)
                  THEN Append(out, "/") ELSE out
             e == ElemEnd(path, r)
         IN CleanLoop(path, e, o \o SubSeq(path, r, e - 1), dotdot, rooted)

\* pathpkg.Clean: the shortest path equivalent to path by lexical processing.
Clean(path) ==
    IF path = <<>> THEN <<".">>
    ELSE LET rooted == path[1] = "/"
             out    == CleanLoop(path, IF rooted THEN 2 ELSE 1,
                                 IF rooted THEN <<"/">> ELSE <<>>,
                                 IF rooted THEN 1 ELSE 0, rooted)
         IN IF out = <<>> THEN <<".">> ELSE out

\* Line 225 of locate: cleaned = pathpkg.Clean("/" + path).
locate(path) == Clean(<<"/">> \o path)

\* Spellings that callers give to Open for the file of the modelled entry.
File     == <<"f", "i", "l", "e">>
RawPaths == {File, <<"/">> \o File, <<"/", "/">> \o File, <<".", "/">> \o File,
             <<".", ".", "/">> \o File, <<"a", "/", ".", ".", "/">> \o File,
             <<"a", "/", "/", ".", "/", ".", ".", "/">> \o File,
             File \o <<"/">>, File \o <<"/", ".">>, File \o <<"/", "a", "/", ".", ".">>}

\* The cleaned paths that locate gives Open for these spellings.
Located == {locate(raw) : raw \in RawPaths}

\* ---- inodes ---------------------------------------------------------------
FreeMeta == [mtime |-> Epoch, js |-> <<>>, lock |-> None]
FreeData == [id |-> None, len |-> 0]

NoStart == [meta |-> FALSE, fresh |-> FALSE, epoch |-> FALSE, data |-> None,
            calls |-> 0, served |-> None]
NoPrev  == [id |-> None, calls |-> 0]
NoCall  == [mtime |-> Epoch, js |-> <<>>, data |-> None]

IdleProc == [pc |-> "idle", op |-> "none", d |-> 0, metaFile |-> None,
             next |-> None, data |-> None, meta |-> ZeroMeta, errCreate |-> FALSE,
             cacheValid |-> FALSE, callId |-> None, res |-> "none",
             path |-> <<>>,
             start |-> NoStart, atCall |-> NoCall]

Min(S) == CHOOSE x \in S : \A y \in S : x <= y
SeqProc == Min(Procs)                 \* the caller of the sequential specification

\* The kernel frees an inode once no name and no open file refers to it.
MetaRefs(m, pr) == {m} \cup {pr[q].metaFile : q \in Procs}
DataRefs(dt, nx, pr) ==
    {dt, nx} \cup {pr[q].next : q \in Procs} \cup {pr[q].data : q \in Procs}

SweepMeta(tbl, m, pr) ==
    [i \in MIno |-> IF i \in MetaRefs(m, pr) THEN tbl[i] ELSE FreeMeta]
SweepData(tbl, dt, nx, pr) ==
    [i \in DIno |-> IF i \in DataRefs(dt, nx, pr) THEN tbl[i] ELSE FreeData]

NewMeta == Min(MIno \ MetaRefs(dirMeta, proc))
NewData == Min(DIno \ DataRefs(dirData, dirNext, proc))

\* Closing the locked descriptor releases the flock.
Unlock(tbl, p) ==
    [i \in MIno |-> IF tbl[i].lock = p THEN [tbl[i] EXCEPT !.lock = None] ELSE tbl[i]]

\* The new file-system state of one step; unreferenced inodes are freed.
Commit(pr, m, dt, nx, mi, di) ==
    /\ proc' = pr
    /\ dirMeta' = m
    /\ dirData' = dt
    /\ dirNext' = nx
    /\ minode' = SweepMeta(mi, m, pr)
    /\ dinode' = SweepData(di, dt, nx, pr)

Set(p, r) == [proc EXCEPT ![p] = r]

\* Local step of p that touches no file.
Local(p, r) ==
    /\ proc' = Set(p, r)
    /\ UNCHANGED <<dirMeta, dirData, dirNext, minode, dinode>>

\* Mutant: the return forgets the deferred metaFile.Close(), the flock stays.
ReturnKeepLock(p, res, dataIno, m, dt, nx, mi, di) ==
    Commit(Set(p, [proc[p] EXCEPT !.pc = "ret", !.res = res, !.data = dataIno,
                                  !.next = None]),
           m, dt, nx, mi, di)

\* return from Open/Delete: the deferred metaFile.Close() runs, .next's descriptor
\* is dropped, the caller gets (data, res).
Return(p, res, dataIno, m, dt, nx, mi, di) ==
    Commit(Set(p, [proc[p] EXCEPT !.pc = "ret", !.res = res, !.data = dataIno,
                                  !.metaFile = None, !.next = None]),
           m, dt, nx, Unlock(mi, p), di)

Env == <<now, atomicExpiration, atomicMaxData>>
Hist == <<loads, lastLoaded, lastToken, served, prev>>

\* ---- freshness ------------------------------------------------------------
\* Mutant: the d == 0 case (never expire) is forgotten.
FreshNoNever(d, mtime, t) == t < mtime + d

\* Mutant: !After instead of Before, the instant mtime + d still counts as fresh.
FreshInclusive(d, mtime, t) == d = 0 \/ t <= mtime + d

\* d == 0 || time.Now().Before(fi.ModTime().Add(d))
Fresh(d, mtime, t) == d = 0 \/ t < mtime + d

\* The documented expiration window (package doc lines 96-98, SetExpiration
\* lines 200-202): valid until mtime plus the period; no period, no expiry.
InWindow(d, mtime, t) == d = 0 \/ t < mtime + d

\* Opens that have started and may still call the loader.
MayLoad == {q \in Procs : proc[q].op = "Open" /\ proc[q].callId = None
                          /\ proc[q].pc \notin {"idle", "ret"}}

Init ==
    /\ now = StartTime
    /\ atomicExpiration = 0
    /\ atomicMaxData = 0
    /\ dirMeta = None
    /\ dirData = None
    /\ dirNext = None
    /\ dirUsed = FALSE
    /\ minode = [i \in MIno |-> FreeMeta]
    /\ dinode = [i \in DIno |-> FreeData]
    /\ proc = [p \in Procs |-> IdleProc]
    /\ loads = 0
    /\ lastLoaded = None
    /\ lastToken = None
    /\ served = None
    /\ prev = NoPrev

\* ---- Cache.Open -----------------------------------------------------------
\* Lines 251-256: locate, os.Stat(prefix+".meta"), c.expiration(), time.Now().
OpenStat(p) ==
    /\ proc[p].pc = "idle"
    /\ \E path \in Located :
       LET d     == atomicExpiration
           exist == dirMeta # None
           fast  == exist /\ Fresh(d, minode[dirMeta].mtime, now)
           st    == [meta  |-> exist,
                     fresh |-> exist /\ InWindow(d, minode[dirMeta].mtime, now),
                     epoch |-> exist /\ minode[dirMeta].mtime = Epoch,
                     data  |-> IF dirData # None THEN dinode[dirData].id ELSE None,
                     calls |-> loads,
                     served |-> served]
       IN Local(p, [proc[p] EXCEPT !.pc = IF fast THEN "fastopen" ELSE "lock1",
                                   !.op = "Open", !.d = d, !.start = st,
                                   !.path = path])
    /\ UNCHANGED <<dirUsed, Env, Hist>>

\* Mutant: the fast path never returns the file it opened.
OpenFastMissed(p) ==
    /\ proc[p].pc = "fastopen"
    /\ Local(p, [proc[p] EXCEPT !.pc = "lock1"])
    /\ UNCHANGED <<dirUsed, Env, Hist>>

\* Mutant: the fast path waits until nobody holds the meta lock.
OpenFastLocked(p) ==
    /\ proc[p].pc = "fastopen"
    /\ dirMeta # None => minode[dirMeta].lock = None
    /\ IF dirData # None
       THEN Return(p, "ok", dirData, dirMeta, dirData, dirNext, minode, dinode)
       ELSE Local(p, [proc[p] EXCEPT !.pc = "lock1"])
    /\ UNCHANGED <<dirUsed, Env, Hist>>

\* Lines 257-259: os.Open(prefix+".data") on the fast path.
OpenFast(p) ==
    /\ proc[p].pc = "fastopen"
    /\ IF dirData # None
       THEN Return(p, "ok", dirData, dirMeta, dirData, dirNext, minode, dinode)
       ELSE Local(p, [proc[p] EXCEPT !.pc = "lock1"])
    /\ UNCHANGED <<dirUsed, Env, Hist>>

\* Line 263 and metaLock lines 234-238: os.OpenFile(prefix+".meta", O_RDWR).
OpenLock1(p) ==
    /\ proc[p].pc = "lock1"
    /\ IF dirMeta # None
       THEN Local(p, [proc[p] EXCEPT !.pc = "flock", !.metaFile = dirMeta])
       ELSE Local(p, [proc[p] EXCEPT !.pc = "create"])
    /\ UNCHANGED <<dirUsed, Env, Hist>>

\* Lines 265-268: os.OpenFile(prefix+".meta", O_RDWR|O_CREATE|O_EXCL) and Close.
OpenCreate(p) ==
    /\ proc[p].pc = "create"
    /\ IF dirMeta = None
       THEN Commit(Set(p, [proc[p] EXCEPT !.pc = "lock2", !.errCreate = FALSE]),
                   NewMeta, dirData, dirNext,
                   [minode EXCEPT ![NewMeta] = [mtime |-> now, js |-> <<>>, lock |-> None]],
                   dinode)
       ELSE Local(p, [proc[p] EXCEPT !.pc = "lock2", !.errCreate = TRUE])
    /\ UNCHANGED <<dirUsed, Env, Hist>>

\* Lines 269-275 and metaLock lines 234-238: the second attempt to open .meta.
OpenLock2(p) ==
    /\ proc[p].pc = "lock2"
    /\ IF dirMeta # None
       THEN Local(p, [proc[p] EXCEPT !.pc = "flock", !.metaFile = dirMeta])
       ELSE Return(p, IF proc[p].errCreate THEN "creating metadata file" ELSE "not exist",
                   None, dirMeta, dirData, dirNext, minode, dinode)
    /\ UNCHANGED <<dirUsed, Env, Hist>>

\* metaLock lines 239-243: syscall.Flock(fd, LOCK_EX) blocks while another open
\* file of the same inode holds the lock.  Shared by Open and Delete.
Flock(p) ==
    /\ proc[p].pc = "flock"
    /\ minode[proc[p].metaFile].lock = None
    /\ Commit(Set(p, [proc[p] EXCEPT !.pc = IF proc[p].op = "Open" THEN "recheck"
                                                                    ELSE "rmdata"]),
              dirMeta, dirData, dirNext,
              [minode EXCEPT ![proc[p].metaFile].lock = p], dinode)
    /\ UNCHANGED <<dirUsed, Env, Hist>>

\* Mutant: the re-check under the lock looks at the freshness of .meta only, not
\* at whether .data could be opened.
OpenRecheckFreshOnly(p) ==
    /\ proc[p].pc = "recheck"
    /\ IF Fresh(proc[p].d, minode[proc[p].metaFile].mtime, now)
       THEN Return(p, "ok", dirData, dirMeta, dirData, dirNext, minode, dinode)
       ELSE Local(p, [proc[p] EXCEPT !.pc = IF dirData = None THEN "nodata"
                                                              ELSE "mknext",
                                     !.meta = Unmarshal(minode[proc[p].metaFile].js)])
    /\ UNCHANGED <<dirUsed, Env, Hist>>

\* Mutant: the re-check under the lock never returns the cached file.
OpenRecheckNoHit(p) ==
    /\ proc[p].pc = "recheck"
    /\ Local(p, [proc[p] EXCEPT !.pc = IF dirData = None THEN "nodata" ELSE "mknext",
                                  !.meta = Unmarshal(minode[proc[p].metaFile].js)])
    /\ UNCHANGED <<dirUsed, Env, Hist>>

\* Lines 281-307: metaFile.Stat(), os.Open(prefix+".data"), the freshness test
\* with the d read at line 255, then ioutil.ReadAll(metaFile) and json.Unmarshal.
OpenRecheck(p) ==
    /\ proc[p].pc = "recheck"
    /\ LET fi      == minode[proc[p].metaFile]
           errData == dirData = None
       IN IF Fresh(proc[p].d, fi.mtime, now) /\ ~errData
          THEN Return(p, "ok", dirData, dirMeta, dirData, dirNext, minode, dinode)
          ELSE Local(p, [proc[p] EXCEPT !.pc = IF errData THEN "nodata" ELSE "mknext",
                                        !.meta = Unmarshal(fi.js)])
    /\ UNCHANGED <<dirUsed, Env, Hist>>

\* Mutant: the token read from .meta is kept although .data is missing.
OpenNoDataKeepToken(p) ==
    /\ proc[p].pc = "nodata"
    /\ Commit(Set(p, [proc[p] EXCEPT !.pc = "mknext"]),
              dirMeta, None, dirNext, minode, dinode)
    /\ UNCHANGED <<dirUsed, Env, Hist>>

\* Lines 309-312: errData != nil: os.Remove(prefix+".data"); meta.Load = nil.
OpenNoData(p) ==
    /\ proc[p].pc = "nodata"
    /\ Commit(Set(p, [proc[p] EXCEPT !.pc = "mknext", !.meta.Load = None]),
              dirMeta, None, dirNext, minode, dinode)
    /\ UNCHANGED <<dirUsed, Env, Hist>>

\* c.loader.Load(path, next, meta.Load) is entered (line 324) with the new .next.
CallLoader(p, nextPc) ==
    /\ Commit(Set(p, [proc[p] EXCEPT
                  !.pc = nextPc, !.next = NewData, !.callId = loads + 1,
                  !.atCall = [mtime |-> IF dirMeta # None THEN minode[dirMeta].mtime
                                                          ELSE Epoch,
                              js    |-> IF dirMeta # None THEN minode[dirMeta].js
                                                          ELSE <<>>,
                              data  |-> dirData]]),
              dirMeta, dirData, NewData, minode,
              [dinode EXCEPT ![NewData] = FreeData])
    /\ loads' = loads + 1
    /\ UNCHANGED <<dirUsed, Env, lastLoaded, lastToken, served, prev>>

\* Line 314: os.OpenFile(prefix+".next", O_RDWR|O_CREATE|O_EXCL).
OpenMkNext(p) ==
    /\ proc[p].pc = "mknext"
    /\ IF dirNext = None
       THEN CallLoader(p, "load")
       ELSE /\ Local(p, [proc[p] EXCEPT !.pc = "rmnext"])
            /\ UNCHANGED <<dirUsed, Env, Hist>>

\* Line 317: os.Remove(prefix+".next") of a stale .next.
OpenRmNext(p) ==
    /\ proc[p].pc = "rmnext"
    /\ Commit(Set(p, [proc[p] EXCEPT !.pc = "mknext2"]),
              dirMeta, dirData, None, minode, dinode)
    /\ UNCHANGED <<dirUsed, Env, Hist>>

\* Lines 318-321: the second os.OpenFile(prefix+".next", ...|O_EXCL).
OpenMkNext2(p) ==
    /\ proc[p].pc = "mknext2"
    /\ IF dirNext = None
       THEN CallLoader(p, "load")
       ELSE /\ Return(p, "creating cached file", None,
                      dirMeta, dirData, dirNext, minode, dinode)
            /\ UNCHANGED <<dirUsed, Env, Hist>>

\* ---- Loader.Load, as Open sees it -------------------------------------------
\* The loader writes the next piece of its payload to target (the open .next).
LoadWrite(p) ==
    /\ proc[p].pc = "load"
    /\ dinode[proc[p].next].len < PayloadLen
    /\ Commit(proc, dirMeta, dirData, dirNext, minode,
              [dinode EXCEPT ![proc[p].next] =
                   [id |-> proc[p].callId, len |-> dinode[proc[p].next].len + 1]])
    /\ UNCHANGED <<dirUsed, Env, Hist>>

\* Mutant: a failed load is cached, .meta is touched on the error path.
LoadErrorCached(p) ==
    /\ proc[p].pc = "load"
    /\ Return(p, "load error", None, dirMeta, dirData, dirNext,
              IF dirMeta # None THEN [minode EXCEPT ![dirMeta].mtime = now] ELSE minode,
              dinode)
    /\ UNCHANGED <<dirUsed, Env, Hist>>

\* Lines 324-328: Load returns err != nil (target in any state): next.Close(),
\* return nil, err.
LoadError(p) ==
    /\ proc[p].pc = "load"
    /\ Return(p, "load error", None, dirMeta, dirData, dirNext, minode, dinode)
    /\ UNCHANGED <<dirUsed, Env, Hist>>

\* Mutant: a revalidation resets the creation time like a fetch does.
LoadValidNewCreate(p) ==
    /\ proc[p].pc = "load"
    /\ dinode[proc[p].next].len = 0
    /\ Commit(Set(p, [proc[p] EXCEPT !.pc = "writemeta", !.next = None,
                                     !.cacheValid = TRUE,
                                     !.meta = [Path        |-> Str(proc[p].path),
                                               CreateTime  |-> now,
                                               RefreshTime |-> now,
                                               Load        |-> proc[p].callId]]),
              dirMeta, dirData, None, minode, dinode)
    /\ lastToken' = proc[p].callId
    /\ UNCHANGED <<dirUsed, Env, loads, lastLoaded, served, prev>>

\* Lines 324-334 and 351-352: Load returns (true, newMeta, nil) without having
\* written: meta.RefreshTime = now, next.Close(), os.Remove(prefix+".next").
LoadValid(p) ==
    /\ proc[p].pc = "load"
    /\ dinode[proc[p].next].len = 0
    /\ Commit(Set(p, [proc[p] EXCEPT !.pc = "writemeta", !.next = None,
                                     !.cacheValid = TRUE,
                                     !.meta = [Path        |-> Str(proc[p].path),
                                               CreateTime  |-> proc[p].meta.CreateTime,
                                               RefreshTime |-> now,
                                               Load        |-> proc[p].callId]]),
              dirMeta, dirData, None, minode, dinode)
    /\ lastToken' = proc[p].callId
    /\ UNCHANGED <<dirUsed, Env, loads, lastLoaded, served, prev>>

\* Mutant: the rename does not replace an existing .data; the fetched .next is
\* installed only when there is no .data yet.
LoadFetchedNoReplace(p) ==
    /\ proc[p].pc = "load"
    /\ dinode[proc[p].next].len = PayloadLen
    /\ Commit(Set(p, [proc[p] EXCEPT !.pc = "writemeta", !.next = None,
                                     !.cacheValid = FALSE,
                                     !.meta = [Path        |-> Str(proc[p].path),
                                               CreateTime  |-> now,
                                               RefreshTime |-> now,
                                               Load        |-> proc[p].callId]]),
              dirMeta, IF dirData = None THEN dirNext ELSE dirData, None,
              minode, dinode)
    /\ lastLoaded' = proc[p].callId
    /\ lastToken' = proc[p].callId
    /\ UNCHANGED <<dirUsed, Env, loads, served, prev>>

\* Lines 324-352: Load returns (false, newMeta, nil) after writing the complete
\* payload: meta.CreateTime = meta.RefreshTime = now, next.Stat(), next.Close(),
\* os.Rename(prefix+".next", prefix+".data"); ENOENT is "installing cached file".
LoadFetched(p) ==
    /\ proc[p].pc = "load"
    /\ dinode[proc[p].next].len = PayloadLen
    /\ IF dirNext # None
       THEN Commit(Set(p, [proc[p] EXCEPT !.pc = "writemeta", !.next = None,
                                          !.cacheValid = FALSE,
                                          !.meta = [Path        |-> Str(proc[p].path),
                                                    CreateTime  |-> now,
                                                    RefreshTime |-> now,
                                                    Load        |-> proc[p].callId]]),
                   dirMeta, dirNext, None, minode, dinode)
       ELSE Return(p, "installing cached file", None,
                   dirMeta, dirData, dirNext, minode, dinode)
    /\ lastLoaded' = proc[p].callId
    /\ lastToken' = proc[p].callId
    /\ UNCHANGED <<dirUsed, Env, loads, served, prev>>

\* Lines 353-367: json.Marshal(&meta); ioutil.WriteFile(prefix+".meta", js, 0666)
\* opens .meta by name (O_WRONLY|O_CREATE|O_TRUNC) and sets its mtime.
OpenWriteMeta(p) ==
    /\ proc[p].pc = "writemeta"
    /\ LET i == IF dirMeta # None THEN dirMeta ELSE NewMeta
       IN Commit(Set(p, [proc[p] EXCEPT !.pc = "reopen"]),
                 i, dirData, dirNext,
                 [minode EXCEPT ![i] = [mtime |-> now, js |-> Marshal(proc[p].meta),
                                        lock  |-> IF dirMeta # None THEN minode[i].lock
                                                                    ELSE None]],
                 dinode)
    /\ UNCHANGED <<dirUsed, Env, Hist>>

\* Lines 392-393: func (c *Cache) checkDataLimit(newSize int64) has an empty
\* body: whatever the limit and the sizes, the name .data (dt) stays as it is.
checkDataLimit(dt, newSize) == dt

\* Lines 370-380: os.Open(prefix+".data"), metaFile.Close(), then
\* if nextSize > 0 { c.checkDataLimit(nextSize) }, return data.  nextSize is the
\* size of the fetched .next (lines 337-341), 0 when the loader said cacheValid.
OpenReopen(p) ==
    /\ proc[p].pc = "reopen"
    /\ IF dirData # None
       THEN LET nextSize == IF proc[p].cacheValid THEN 0 ELSE PayloadLen
            IN Return(p, "ok", dirData, dirMeta,
                      IF nextSize > 0 THEN checkDataLimit(dirData, nextSize)
                                      ELSE dirData,
                      dirNext, minode, dinode)
       ELSE Return(p, "not exist", None, dirMeta, dirData, dirNext, minode, dinode)
    /\ UNCHANGED <<dirUsed, Env, Hist>>

\* The caller is done with the result; a returned file is closed (ReadFile line 388).
Close(p) ==
    /\ proc[p].pc = "ret"
    /\ Commit(Set(p, IdleProc), dirMeta, dirData, dirNext, minode, dinode)
    /\ prev' = IF proc[p].op = "Open" /\ proc[p].res = "ok"
               THEN [id    |-> dinode[proc[p].data].id,
                     calls |-> IF proc[p].callId # None THEN 1 ELSE 0]
               ELSE NoPrev
    /\ served' = IF proc[p].op = "Open" /\ proc[p].res = "ok"
                    /\ dinode[proc[p].data].id > served
                 THEN dinode[proc[p].data].id ELSE served
    /\ UNCHANGED <<dirUsed, Env, loads, lastLoaded, lastToken>>

\* ---- Cache.Delete -----------------------------------------------------------
\* Lines 397-404 and metaLock lines 234-238: open .meta; not-exist returns nil.
DeleteLock(p) ==
    /\ proc[p].pc = "idle"
    /\ LET st == [NoStart EXCEPT !.meta = dirMeta # None,
                                 !.data = IF dirData # None THEN dinode[dirData].id
                                                            ELSE None]
       IN IF dirMeta # None
          THEN Local(p, [proc[p] EXCEPT !.pc = "flock", !.op = "Delete",
                                        !.metaFile = dirMeta, !.start = st])
          ELSE Commit(Set(p, [proc[p] EXCEPT !.pc = "ret", !.op = "Delete",
                                             !.res = "ok", !.start = st]),
                      dirMeta, dirData, dirNext, minode, dinode)
    /\ UNCHANGED <<dirUsed, Env, Hist>>

\* Line 405: os.Remove(prefix+".data").
DeleteRmData(p) ==
    /\ proc[p].pc = "rmdata"
    /\ Commit(Set(p, [proc[p] EXCEPT !.pc = "rmnextd"]),
              dirMeta, None, dirNext, minode, dinode)
    /\ UNCHANGED <<dirUsed, Env, Hist>>

\* Mutant: Delete forgets the .next file.
DeleteKeepNext(p) ==
    /\ proc[p].pc = "rmnextd"
    /\ Local(p, [proc[p] EXCEPT !.pc = "rmused"])
    /\ UNCHANGED <<dirUsed, Env, Hist>>

\* Mutant: Delete returns without closing its .meta descriptor, the flock stays.
DeleteRmMetaNoClose(p) ==
    /\ proc[p].pc = "rmmeta"
    /\ Commit(Set(p, [proc[p] EXCEPT !.pc = "ret", !.res = "ok"]),
              None, dirData, dirNext, minode, dinode)
    /\ UNCHANGED <<dirUsed, Env, Hist>>

\* Line 406: os.Remove(prefix+".next").
DeleteRmNext(p) ==
    /\ proc[p].pc = "rmnextd"
    /\ Commit(Set(p, [proc[p] EXCEPT !.pc = "rmused"]),
              dirMeta, dirData, None, minode, dinode)
    /\ UNCHANGED <<dirUsed, Env, Hist>>

\* Line 407: os.Remove(prefix+".used").
DeleteRmUsed(p) ==
    /\ proc[p].pc = "rmused"
    /\ Local(p, [proc[p] EXCEPT !.pc = "rmmeta"])
    /\ dirUsed' = FALSE
    /\ UNCHANGED <<Env, Hist>>

\* Lines 408-413: os.Remove(prefix+".meta"), metaFile.Close(); not-exist is nil.
DeleteRmMeta(p) ==
    /\ proc[p].pc = "rmmeta"
    /\ Return(p, "ok", None, None, dirData, dirNext, minode, dinode)
    /\ UNCHANGED <<dirUsed, Env, Hist>>

\* ---- Cache.Expire -----------------------------------------------------------
\* Lines 423-431: os.Chtimes(prefix+".meta", Unix(0,0), Unix(0,0)); not-exist is nil.
Expire(p) ==
    /\ proc[p].pc = "idle"
    /\ IF dirMeta # None
       THEN Commit(proc, dirMeta, dirData, dirNext,
                   [minode EXCEPT ![dirMeta].mtime = Epoch], dinode)
       ELSE UNCHANGED <<proc, dirMeta, dirData, dirNext, minode, dinode>>
    /\ prev' = NoPrev
    /\ UNCHANGED <<dirUsed, Env, loads, lastLoaded, lastToken, served>>

\* ---- Cache.DeleteAll, Cache.ExpireAll ----------------------------------------
\* Lines 417-419: func (c *Cache) DeleteAll() error { panic("not implemented") }.
\* The call never returns to its caller; no file is touched.
DeleteAll(p) ==
    /\ proc[p].pc = "idle"
    /\ Local(p, [proc[p] EXCEPT !.pc = "panic", !.op = "DeleteAll"])
    /\ UNCHANGED <<dirUsed, Env, Hist>>

\* Lines 434-436: func (c *Cache) ExpireAll() error { panic("not implemented") }.
ExpireAll(p) ==
    /\ proc[p].pc = "idle"
    /\ Local(p, [proc[p] EXCEPT !.pc = "panic", !.op = "ExpireAll"])
    /\ UNCHANGED <<dirUsed, Env, Hist>>

\* ---- Cache.SetExpiration ------------------------------------------------------
\* Lines 203-205: atomic.StoreInt64(&c.atomicExpiration, int64(d)).
SetExpiration(d) ==
    /\ d # atomicExpiration
    /\ atomicExpiration' = d
    /\ UNCHANGED <<now, atomicMaxData, dirMeta, dirData, dirNext, dirUsed,
                   minode, dinode, proc, Hist>>

\* ---- Cache.SetMaxData --------------------------------------------------------
\* Lines 216-218: atomic.StoreInt64(&c.atomicMaxData, max).
SetMaxData(max) ==
    /\ max # atomicMaxData
    /\ atomicMaxData' = max
    /\ UNCHANGED <<now, atomicExpiration, dirMeta, dirData, dirNext, dirUsed,
                   minode, dinode, proc, Hist>>

\* The clock advances.
Tick ==
    /\ now < MaxTime
    /\ now' = now + 1
    /\ UNCHANGED <<atomicExpiration, atomicMaxData, dirMeta, dirData, dirNext,
                   dirUsed, minode, dinode, proc, Hist>>

\* ---- specifications -----------------------------------------------------------
\* Every Open that has started can still make its loader call within the bound.
CanLoad(max) == loads + Cardinality(MayLoad) < max

\* The steps inside Open and Delete, and Expire.
Rest(p) ==
    \/ OpenFast(p) \/ OpenLock1(p) \/ OpenCreate(p) \/ OpenLock2(p)
    \/ Flock(p) \/ OpenRecheck(p) \/ OpenNoData(p)
    \/ OpenMkNext(p) \/ OpenRmNext(p) \/ OpenMkNext2(p)
    \/ LoadWrite(p) \/ LoadError(p) \/ LoadValid(p) \/ LoadFetched(p)
    \/ OpenWriteMeta(p) \/ OpenReopen(p) \/ Close(p)
    \/ DeleteLock(p) \/ DeleteRmData(p) \/ DeleteRmNext(p) \/ DeleteRmUsed(p)
    \/ DeleteRmMeta(p)
    \/ Expire(p)

\* Any interleaving of the goroutines/processes that share the directory.  The
\* operations overlap within one reading of the clock.
Next ==
    \/ \E p \in Procs : (CanLoad(MaxConcLoads) /\ OpenStat(p)) \/ Rest(p)
    \/ \E d \in {0, MaxExpiration} : SetExpiration(d)

Spec == Init /\ [][Next]_vars

\* One caller issuing one operation after the other, while time passes.
SeqNext ==
    \/ (CanLoad(MaxLoads) /\ OpenStat(SeqProc)) \/ Rest(SeqProc)
    \/ DeleteAll(SeqProc) \/ ExpireAll(SeqProc)
    \/ \E d \in 0..MaxExpiration : SetExpiration(d)
    \/ \E max \in 0..MaxDataLimit : SetMaxData(max)
    \/ Tick

SpecSeq == Init /\ [][SeqNext]_vars

\* Concurrent Opens only, with the expiration left at 0 and a loader that always
\* fetches: no Delete, no Expire, no loader error.  Without a failed load no
\* .next is ever stale, so the retry of lines 316-321 has no step here.
OpensNext ==
    \E p \in Procs :
        \/ (CanLoad(MaxConcLoads) /\ OpenStat(p))
        \/ OpenFast(p) \/ OpenLock1(p) \/ OpenCreate(p) \/ OpenLock2(p)
        \/ Flock(p) \/ OpenRecheck(p) \/ OpenNoData(p) \/ OpenMkNext(p)
        \/ LoadWrite(p) \/ LoadFetched(p)
        \/ OpenWriteMeta(p) \/ OpenReopen(p) \/ Close(p)

SpecOpens == Init /\ [][OpensNext]_vars

\* Concurrent Opens of an entry that is expired and refreshed under them: any
\* loader outcome, Expire and SetExpiration, no Delete; with room for a refresh
\* that runs while a later Open starts.
RefreshNext ==
    \/ \E p \in Procs :
        \/ (CanLoad(MaxLoads) /\ OpenStat(p))
        \/ OpenFast(p) \/ OpenLock1(p) \/ OpenCreate(p) \/ OpenLock2(p)
        \/ Flock(p) \/ OpenRecheck(p) \/ OpenNoData(p)
        \/ OpenMkNext(p) \/ OpenRmNext(p) \/ OpenMkNext2(p)
        \/ LoadWrite(p) \/ LoadError(p) \/ LoadValid(p) \/ LoadFetched(p)
        \/ OpenWriteMeta(p) \/ OpenReopen(p) \/ Close(p)
        \/ Expire(p)
    \/ \E d \in {0, MaxExpiration} : SetExpiration(d)

SpecRefresh == Init /\ [][RefreshNext]_vars

\* Any interleaving of Opens, Delete, Expire and SetExpiration with a loader
\* that always fetches: every call writes its payload and returns
\* (false, newMeta, nil).
FetchNext ==
    \/ \E p \in Procs :
        \/ (CanLoad(MaxConcLoads) /\ OpenStat(p))
        \/ OpenFast(p) \/ OpenLock1(p) \/ OpenCreate(p) \/ OpenLock2(p)
        \/ Flock(p) \/ OpenRecheck(p) \/ OpenNoData(p)
        \/ OpenMkNext(p) \/ OpenRmNext(p) \/ OpenMkNext2(p)
        \/ LoadWrite(p) \/ LoadFetched(p)
        \/ OpenWriteMeta(p) \/ OpenReopen(p) \/ Close(p)
        \/ DeleteLock(p) \/ DeleteRmData(p) \/ DeleteRmNext(p)
        \/ DeleteRmUsed(p) \/ DeleteRmMeta(p)
        \/ Expire(p)
    \/ \E d \in {0, MaxExpiration} : SetExpiration(d)

SpecFetch == Init /\ [][FetchNext]_vars

\* The steps of Open and Delete that do not wait for anything: once started, a
\* goroutine keeps running, and a loader call goes on until it returns.
Steps(p) ==
    \/ OpenFast(p) \/ OpenLock1(p) \/ OpenCreate(p) \/ OpenLock2(p)
    \/ OpenRecheck(p) \/ OpenNoData(p)
    \/ OpenMkNext(p) \/ OpenRmNext(p) \/ OpenMkNext2(p)
    \/ LoadWrite(p) \/ LoadError(p) \/ LoadValid(p) \/ LoadFetched(p)
    \/ OpenWriteMeta(p) \/ OpenReopen(p)
    \/ DeleteRmData(p) \/ DeleteRmNext(p) \/ DeleteRmUsed(p) \/ DeleteRmMeta(p)

\* Any interleaving of Opens, Delete and Expire under the expiration New leaves
\* (none), with running goroutines that make progress, loader calls that
\* terminate, and a flock that is granted fairly to those waiting for it.
LiveNext ==
    \E p \in Procs :
        \/ (CanLoad(MaxConcLoads) /\ OpenStat(p))
        \/ DeleteLock(p) \/ Expire(p)
        \/ Steps(p) \/ Flock(p) \/ Close(p)

SpecLive ==
    /\ Init /\ [][LiveNext]_vars
    /\ \A p \in Procs : WF_vars(Steps(p)) /\ SF_vars(Flock(p))

\* ---- properties -------------------------------------------------------------
HoldsMetaLock(p) ==
    proc[p].metaFile # None /\ minode[proc[p].metaFile].lock = p

Returned(p, op) == proc[p].pc = "ret" /\ proc[p].op = op
Opened(p)       == Returned(p, "Open") /\ proc[p].res = "ok"
Complete(i)     == dinode[i].len = PayloadLen

\* C1: for the path, under every interleaving of Open, Expire and Delete, at most
\* one process at a time holds the meta lock (is between flock and the close
\* of its .meta descriptor), also when Delete unlinks .meta under a waiting Open.
C1_OneMetaLockHolder ==
    Cardinality({p \in Procs : HoldsMetaLock(p)}) <= 1

\* C2: in every reachable state the file named .data, if present, is a complete
\* payload of one finished loader call: no loader is still writing it and it is
\* not a strict prefix of a payload.
C2_DataNeverTorn ==
    dirData # None =>
        /\ Complete(dirData)
        /\ \A p \in Procs : proc[p].pc = "load" => proc[p].next # dirData

\* C3: every handle Open returns reads the bytes of the last Load that returned
\* (false, _, nil) for the path (after a cacheValid == true these are the bytes
\* of the prior .data), for every sequence of Open, SetExpiration, Expire, Delete.
C3_ReadsLastLoad ==
    \A p \in Procs : Opened(p) =>
        /\ lastLoaded # None
        /\ dinode[proc[p].data].id = lastLoaded
        /\ Complete(proc[p].data)

\* C3 witness: an Open returned a handle after its loader call answered
\* cacheValid == true for an entry fetched by an earlier call.
C3_Witness ==
    \E p \in Procs : Opened(p) /\ proc[p].cacheValid /\ proc[p].callId # None
                     /\ dinode[proc[p].data].id = lastLoaded

\* C4: once Open has returned a handle, the content readable through the handle
\* never changes, whatever later or concurrent operations do.
C4_HandleContentStable ==
    [][\A p \in Procs :
          (Opened(p) /\ proc'[p].pc = "ret")
              => dinode'[proc[p].data] = dinode[proc[p].data]]_vars

\* C5: after Expire of an existing entry (its .meta carries modification time
\* Unix 0) the very next Open invokes the loader, whatever the expiration is.
C5_ExpireForcesLoad ==
    \A p \in Procs : (Returned(p, "Open") /\ proc[p].start.epoch)
                         => proc[p].callId # None

C7_TwiceWithinWindow ==
    \A p \in Procs :
        (Returned(p, "Open") /\ prev # NoPrev /\ proc[p].start.fresh)
        => /\ proc[p].res = "ok"
           /\ dinode[proc[p].data].id = prev.id
           /\ prev.calls + (IF proc[p].callId # None THEN 1 ELSE 0) <= 1

\* C7 witness: the second Open returned, the first one having called the loader,
\* under a non-zero expiration.
C7_Witness ==
    \E p \in Procs :
        /\ Opened(p) /\ prev.calls = 1 /\ proc[p].start.fresh /\ proc[p].d # 0

\* An Open under a non-zero expiration that started at or after mtime + d.
StartedExpired(p) ==
    /\ Returned(p, "Open")
    /\ proc[p].d # 0
    /\ proc[p].start.meta
    /\ ~proc[p].start.fresh

C9_DeleteLeavesNothing ==
    \A p \in Procs : Returned(p, "Delete") =>
        /\ proc[p].res = "ok"
        /\ dirMeta = None /\ dirData = None /\ dirNext = None /\ ~dirUsed

\* C9 witness: Delete returned for an entry that had .meta and .data, after at
\* least two loader calls were made for the path.
C9_Witness ==
    \E p \in Procs :
        /\ Returned(p, "Delete") /\ proc[p].start.meta /\ proc[p].start.data # None
        /\ loads >= 2

\* The state in which an Open under expiration d returns .data without a call.
CacheHit(d) ==
    /\ dirMeta # None
    /\ InWindow(d, minode[dirMeta].mtime, now)
    /\ dirData # None

\* C10: when the loader returns an error, Open returns it, .meta has the content
\* and modification time and .data the file they had before the loader call, and
\* the next Open invokes the loader again (the entry is no cache hit, and every
\* Open that starts on an entry that is no cache hit invokes the loader).
C10_NoNegativeCaching ==
    \A p \in Procs :
        /\ (Returned(p, "Open") /\ proc[p].res = "load error") =>
              /\ proc[p].data = None
              /\ dirMeta # None
              /\ minode[dirMeta].mtime = proc[p].atCall.mtime
              /\ minode[dirMeta].js = proc[p].atCall.js
              /\ dirData = proc[p].atCall.data
              /\ ~CacheHit(proc[p].d)
        /\ (Returned(p, "Open") /\ ~(proc[p].start.fresh /\ proc[p].start.data # None))
              => proc[p].callId # None

\* C10 witness: the refresh of an expired entry failed; Open returned the error
\* and the entry still has its old .data.
C10_Witness ==
    \E p \in Procs :
        /\ Returned(p, "Open") /\ proc[p].res = "load error"
        /\ proc[p].atCall.data # None /\ dirData # None

\* C11: when Open returns an error that arose after it created .next (the loader
\* failed, or the install of .next failed), no .next file of the entry is left.
C11_NoNextAfterError ==
    \A p \in Procs :
        (Returned(p, "Open") /\ proc[p].res # "ok" /\ proc[p].callId # None)
            => dirNext = None

C13_OneLoadSameContent ==
    /\ loads <= 1
    /\ Cardinality({p \in Procs : HoldsMetaLock(p)}) <= 1
    /\ \A p \in Procs :
          /\ proc[p].pc # "rmnext"
          /\ Returned(p, "Open") =>
                /\ proc[p].res = "ok"
                /\ loads = 1
                /\ dinode[proc[p].data].id = loads
                /\ Complete(proc[p].data)

\* C13 witness: two Opens that both started before the path had a .meta have
\* returned; one made the loader call, the other made none.
C13_Witness ==
    \E p \in Procs, q \in Procs :
        /\ Opened(p) /\ ~proc[p].start.meta /\ proc[p].callId # None
        /\ Opened(q) /\ ~proc[q].start.meta /\ proc[q].callId = None

C15_OpenTouchesUsed ==
    \A p \in Procs : Opened(p) => dirUsed

\* Bytes held by the .data files of the cache (the model has one entry).
TotalData == IF dirData # None THEN dinode[dirData].len ELSE 0

\* C16: when an Open that installed a fetched .data returns its handle while the
\* limit max_data is positive, the .data files of the cache hold at most
\* max_data bytes.
C16_DataWithinLimit ==
    [][\A p \in Procs :
          (/\ proc[p].pc = "reopen" /\ ~proc[p].cacheValid
           /\ proc'[p].pc = "ret" /\ proc'[p].res = "ok"
           /\ atomicMaxData > 0)
          => TotalData' <= atomicMaxData]_vars

\* C17: a call of DeleteAll or ExpireAll returns normally, without error; after
\* DeleteAll no file of an entry remains, after ExpireAll every entry is expired
\* (its .meta has the modification time of Unix time 0).
C17_AllEntriesOps ==
    \A p \in Procs : proc[p].op \in {"DeleteAll", "ExpireAll"} =>
        /\ proc[p].pc = "ret" /\ proc[p].res = "ok"
        /\ proc[p].op = "DeleteAll" =>
              (dirMeta = None /\ dirData = None /\ dirNext = None /\ ~dirUsed)
        /\ (proc[p].op = "ExpireAll" /\ dirMeta # None) =>
              minode[dirMeta].mtime = Epoch

\* C18: while Open is inside a loader call, the token it passed is empty if the
\* entry had no .data that could be opened when the call was made, and otherwise
\* the token returned by the most recent Load that returned without error; the
\* path it passed is the cleaned path of the entry, which begins with a slash.
C18_TokenAndPathPassed ==
    \A p \in Procs : proc[p].pc = "load" =>
        /\ proc[p].meta.Load = IF proc[p].atCall.data = None THEN None
                                                              ELSE lastToken
        /\ Head(proc[p].path) = "/"
        /\ Clean(proc[p].path) = proc[p].path
        /\ Str(proc[p].path) = ThePath

\* C18 witness: the third loader call gets the token of the second, which had
\* answered cacheValid for the payload of the first.
C18_Witness ==
    \E p \in Procs :
        /\ proc[p].pc = "load" /\ proc[p].atCall.data # None
        /\ proc[p].meta.Load # None /\ proc[p].meta.Load = lastToken
        /\ lastToken # lastLoaded

\* C19: when the loader answers cacheValid without error for an entry that has
\* .data, Open returns a handle on that same .data file with its content as it
\* was, .next is gone, and .meta holds the old create time, the returned token
\* and a refresh time not after its modification time; the refresh time is the
\* time at which the loader returned, and the rewrite of .meta gives it the
\* current time as modification time, so that the entry is a cache hit again.
C19_RevalidationKeepsData ==
    /\ [](\A p \in Procs :
            (Returned(p, "Open") /\ proc[p].cacheValid /\ proc[p].atCall.data # None)
            => /\ proc[p].res = "ok"
               /\ dirData = proc[p].atCall.data
               /\ proc[p].data = dirData
               /\ dinode[dirData].id = proc[p].start.data
               /\ Complete(dirData)
               /\ dirNext = None
               /\ dirMeta # None
               /\ LET m   == Unmarshal(minode[dirMeta].js)
                      old == Unmarshal(proc[p].atCall.js)
                  IN /\ m.CreateTime = old.CreateTime
                     /\ m.Load = proc[p].callId
                     /\ m.Path = ThePath
                     /\ m.RefreshTime <= minode[dirMeta].mtime
                     /\ minode[dirMeta].mtime <= now)
    /\ [][\A p \in Procs :
            /\ (proc[p].pc = "load" /\ proc'[p].pc = "writemeta" /\ proc'[p].cacheValid)
                  => proc'[p].meta.RefreshTime = now
            /\ (/\ proc[p].pc = "writemeta" /\ proc[p].cacheValid
                 /\ proc[p].atCall.data # None /\ proc'[p].pc = "reopen")
                  => /\ minode'[dirMeta'].mtime = now
                     /\ minode'[dirMeta'].js = Marshal(proc[p].meta)
                     /\ CacheHit(proc[p].d)']_vars

\* C19 witness: an Open revalidated, at a later time, a payload fetched before:
\* it returned the handle, and .meta has a refresh time after its create time.
C19_Witness ==
    \E p \in Procs :
        /\ Opened(p) /\ proc[p].cacheValid /\ proc[p].atCall.data # None
        /\ Unmarshal(minode[dirMeta].js).CreateTime
              < Unmarshal(minode[dirMeta].js).RefreshTime

\* C20: when the loader answers cacheValid for an entry that has no .data, Open
\* returns an error and no handle, having rewritten .meta with the returned
\* token; and an Open that starts on an entry without .data, whatever .meta
\* says, calls the loader, passing the empty token.
C20_ValidWithoutDataRefetches ==
    \A p \in Procs :
        /\ (Returned(p, "Open") /\ proc[p].cacheValid /\ proc[p].atCall.data = None)
              => /\ proc[p].res = "not exist"
                 /\ proc[p].data = None
                 /\ dirData = None
                 /\ dirMeta # None
                 /\ Unmarshal(minode[dirMeta].js).Load = proc[p].callId
                 /\ Unmarshal(minode[dirMeta].js).RefreshTime <= minode[dirMeta].mtime
                 /\ proc[p].atCall.mtime <= minode[dirMeta].mtime
        /\ (Returned(p, "Open") /\ proc[p].start.data = None)
              => proc[p].callId # None
        /\ (proc[p].pc = "load" /\ proc[p].start.data = None)
              => proc[p].meta.Load = None

\* C20 witness: the Open after the failed one is inside its loader call, made
\* with the empty token, for an entry whose fresh .meta holds the token of the
\* failed Open and that has no .data.
C20_Witness ==
    \E p \in Procs :
        /\ proc[p].pc = "load" /\ proc[p].start.fresh /\ proc[p].start.data = None
        /\ Unmarshal(proc[p].atCall.js).Load # None
        /\ Unmarshal(proc[p].atCall.js).Load = lastToken
        /\ proc[p].meta.Load = None

\* An Open that is refreshing the entry: past the re-check under the meta lock,
\* not yet returned.
Refreshing(p) ==
    /\ proc[p].op = "Open"
    /\ proc[p].pc \in {"nodata", "mknext", "rmnext", "mknext2", "load",
                        "writemeta", "reopen"}

\* C21: under every interleaving of Opens, Expire and Delete, the refreshes of
\* the path follow one another in the order in which their meta locks were
\* taken (no two Opens are refreshing at once), and an Open that started after
\* a caller had read the payload of the k-th loader call returns the payload of
\* a loader call numbered k or later.
C21_NoRegress ==
    /\ Cardinality({p \in Procs : Refreshing(p)}) <= 1
    /\ \A p \in Procs :
          Opened(p) => dinode[proc[p].data].id >= proc[p].start.served

\* C22: with a loader that always fetches successfully, every Open that returns
\* returns a handle and no error, whatever Opens, Expire and Delete of the same
\* path run at the same time.
C22_OpenNeverFails ==
    \A p \in Procs : Returned(p, "Open") => proc[p].res = "ok"

\* C23: a process holds at most one meta lock and holds none while it waits for
\* one; and, when running goroutines make progress, loader calls terminate and
\* the flock is granted fairly, every Open and Delete that has started
\* eventually returns (Expire returns at once, it waits for nothing).
C23_EveryOperationReturns ==
    /\ [](\A p \in Procs :
            /\ Cardinality({i \in MIno : minode[i].lock = p}) <= 1
            /\ proc[p].pc = "flock" => \A i \in MIno : minode[i].lock # p)
    /\ \A p \in Procs :
          (proc[p].pc \notin {"idle", "ret"}) ~> (proc[p].pc = "ret")

\* C23 witness: a Delete that found the entry and an Open that had started on
\* the path before it had a .meta, and made the loader call itself, have both
\* returned.
C23_Witness ==
    \E p \in Procs, q \in Procs :
        /\ Returned(p, "Delete") /\ proc[p].start.meta
        /\ Returned(q, "Open") /\ ~proc[q].start.meta /\ proc[q].callId # None
====
